---- MODULE Spec2Model ----
(***************************************************************************)
(* Model of NoiseWall.py: one NoiseWall object (one subject, one           *)
(* experiment), the calls a client can make on it, and the values the      *)
(* calls leave in its attributes.                                          *)
(*                                                                         *)
(* Numbers.  A float attribute is a record [k, n, d]:                      *)
(*   "unset"  the attribute does not exist (reading it: AttributeError)    *)
(*   "num"    the rational n/d, d > 0, in lowest terms                     *)
(*   "sqrt"   the square root of the rational n/d (n >= 0)                 *)
(*   "dB"     10*log10(sqrt(n/d)), n/d > 0                                 *)
(*   "pos"    a positive finite float whose value the model does not       *)
(*            compute (it depends on the reference tables or on the        *)
(*            filter coefficients)                                         *)
(*   "fin"    a finite float whose value the model does not compute        *)
(*   "inf", "nan"  IEEE infinity and not-a-number                          *)
(* Voltages are in units of 10 microvolts, variances in their squares.     *)
(*                                                                         *)
(* Signals.  self.eeg is a record [x, h]: the samples x of the recording   *)
(* passed through the filters of the bag h, in the order filterData        *)
(* applies them.  With h empty self.eeg is x itself and everything         *)
(* computed from it is exact.  With h not empty the samples are the        *)
(* output of signal.lfilter; the model does not compute the coefficients   *)
(* of signal.butter, so it keeps of this output what holds for every       *)
(* coefficient set with b[0] # 0: the leading zeros of x stay zeros and    *)
(* the first non-zero sample of x gives a non-zero sample.  What is        *)
(* computed from the other samples is a "pos" or zero value, and a         *)
(* comparison that depends on its size is left open.                       *)
(***************************************************************************)
EXTENDS Integers, Sequences, FiniteSets, Bags

VARIABLES
    files,                      \* the data files in self.subdir
    dataok,                     \* self.dataok
    fs,                         \* self.fs; NoFs before loadDataFromFile
    eeg,                        \* self.eeg, the signal [x, h]
    zero_data,                  \* self.zero_data (ms)
    zero_video,                 \* self.zero_video (ms)
    relaxed,                    \* self.relaxed, <<start, end>> (ms)
    artefact,                   \* self.artefact, rows <<start, end>> (ms)
    f_signal_min,               \* self.f_signal_min
    f_signal_max,               \* self.f_signal_max
    applied,                    \* filters passed to lfilter by the last filterData
    fresp,                      \* filters folded into fresp by the last filterData
    lastBand,                   \* (band_low, band_high) of the last filterData
    eegFilterFrequencyResponse, \* self.eegFilterFrequencyResponse
    pureEEGVar,                 \* self.pureEEGVar
    noiseVarMin,                \* self.noiseVarMin
    noiseVarMax,                \* self.noiseVarMax
    rho,                        \* self.rho
    SNRwall,                    \* self.SNRwall
    noiseVariance,              \* calcSNR's local noiseVariance, as last computed
    consciousEEGvar,            \* self.consciousEEGvar
    SNR,                        \* self.SNR
    pc,                         \* position inside doAllCalcs, or "idle"
    op,                         \* the method that ran last
    caller,                     \* who called it: "client" or "doAllCalcs"
    exc,                        \* how it ended: "none" or the exception
    ret,                        \* what the last getter returned
    lastAll,                    \* how the last finished doAllCalcs ended
    filterCalls,                \* number of filterData calls so far
    calls                       \* number of calls of the client so far

vars == <<files, dataok, fs, eeg, zero_data, zero_video, relaxed, artefact,
          f_signal_min, f_signal_max, applied, fresp, lastBand,
          eegFilterFrequencyResponse, pureEEGVar, noiseVarMin, noiseVarMax,
          rho, SNRwall, noiseVariance, consciousEEGvar, SNR,
          pc, op, caller, exc, ret, lastAll, filterCalls, calls>>

----------------------------------------------------------------------------
(* Bounds of the model *)

EegLen == 3
MaxArtefacts == 2
MaxFilterCalls == 1
MaxCalls == 3

(* Program constants *)

SamplingRate == 1000
AmplifierGain == 500
corrfactor == 2
noiseReduction == 1
consciousEEGgain == 1
\* 50E-6 V, in units of 10 microvolts
MinStdLimit == 5

DATA_INVALID == "Data invalid"
MIN_VAR_NEG == "Min variance less than pure EEG var"
MAX_VAR_NEG == "Max variance less than pure EEG var"
MIN_VAR_LARGER_THAN_MAX_VAR == "Min variance larger than max variance"
MIN_VAR_UNUSUALLY_HIGH == "Unusually high Min variance"

Reasons == {DATA_INVALID, MIN_VAR_NEG, MAX_VAR_NEG,
            MIN_VAR_LARGER_THAN_MAX_VAR, MIN_VAR_UNUSUALLY_HIGH}

NoExc == "none"

----------------------------------------------------------------------------
(* Floats *)

Abs(x) == IF x < 0 THEN -x ELSE x

RECURSIVE Gcd(_, _)
Gcd(a, b) == IF b = 0 THEN a ELSE Gcd(b, a % b)

Val(kind, n, d) ==
    LET g == Gcd(Abs(n), d)
    IN  [k |-> kind, n |-> n \div g, d |-> d \div g]

Num(n, d) == Val("num", n, d)
Unset == [k |-> "unset", n |-> 0, d |-> 1]
NaN == [k |-> "nan", n |-> 0, d |-> 1]
Inf == [k |-> "inf", n |-> 0, d |-> 1]
Pos == [k |-> "pos", n |-> 0, d |-> 1]
Fin == [k |-> "fin", n |-> 0, d |-> 1]
Zero == Num(0, 1)

IsSet(x) == x.k # "unset"

\* a value the model has computed
Exact(x) == x.k \in {"num", "sqrt"}
IsZero(x) == Exact(x) /\ x.n = 0

\* x < y for two "num" values
Less(x, y) == x.n * y.d < y.n * x.d

Mean2(x, y) == Num(x.n * y.d + y.n * x.d, 2 * x.d * y.d)

----------------------------------------------------------------------------
(* numpy and Python primitives the methods use *)

Min2(a, b) == IF a < b THEN a ELSE b
Max2(a, b) == IF a < b THEN b ELSE a

\* int(x) for the rational x = p/q, q > 0: truncation toward zero
IntTrunc(p, q) == IF p >= 0 THEN p \div q ELSE -((-p) \div q)

\* a slice bound of a Python sequence of length len
PyBound(i, len) == IF i < 0 THEN Max2(i + len, 0) ELSE Min2(i, len)

\* s[t1:t2] of a Python sequence
PySlice(s, t1, t2) ==
    LET lo == PyBound(t1, Len(s))
        hi == PyBound(t2, Len(s))
    IN  IF lo < hi THEN SubSeq(s, lo + 1, hi) ELSE << >>

RECURSIVE SeqSum(_)
SeqSum(s) == IF s = << >> THEN 0 ELSE Head(s) + SeqSum(Tail(s))

SeqSquares(s) == [i \in 1..Len(s) |-> s[i] * s[i]]

\* np.var(y / r) of the samples y: the population variance; nan (with a
\* RuntimeWarning, no exception) for an empty array
NpVar(y, r) ==
    LET len == Len(y)
    IN  IF len = 0 THEN NaN
        ELSE Num(len * SeqSum(SeqSquares(y)) - SeqSum(y) * SeqSum(y),
                 len * len * r * r)

\* the index of the first non-zero sample of x; Len(x) + 1 if there is none
FirstNonZero(x) ==
    IF \A i \in 1..Len(x) : x[i] = 0 THEN Len(x) + 1
    ELSE CHOOSE i \in 1..Len(x) : x[i] # 0 /\ \A j \in 1..(i - 1) : x[j] = 0

\* what np.var can give for the samples lo+1..hi of signal.lfilter's output
\* for the input x: nan for an empty slice; zero for one sample and for a
\* slice of leading zeros; positive for a slice that holds a leading zero
\* and the first non-zero sample; otherwise zero (all samples equal) or
\* positive
LfilterVar(x, lo, hi) ==
    IF hi <= lo THEN {NaN}
    ELSE IF hi < FirstNonZero(x) \/ hi - lo = 1 THEN {Zero}
    ELSE IF lo + 1 < FirstNonZero(x) THEN {Pos}
    ELSE {Zero, Pos}

\* what np.var(e[t1:t2] / r) can give for the signal e
SliceVar(e, t1, t2, r) ==
    IF e.h = EmptyBag
    THEN {NpVar(PySlice(e.x, t1, t2), r)}
    ELSE LfilterVar(e.x, PyBound(t1, Len(e.x)), PyBound(t2, Len(e.x)))

\* x < y, for two values the model has computed; of two variances of which
\* one is not computed, a zero is below a positive one
Below(x, y) ==
    IF Exact(x) /\ Exact(y) THEN Less(x, y) ELSE IsZero(x) /\ ~IsZero(y)

\* the k-th smallest of a non-empty sequence of variances
KthSmallest(vs, k) ==
    LET i == CHOOSE i \in 1..Len(vs) :
                 /\ Cardinality({j \in 1..Len(vs) : Below(vs[j], vs[i])}) < k
                 /\ Cardinality({j \in 1..Len(vs) : ~Below(vs[i], vs[j])}) >= k
    IN  vs[i]

\* (x + y) / 2 of two variances
MeanOf(x, y) == IF Exact(x) /\ Exact(y) THEN Mean2(x, y) ELSE Pos

\* np.median(list): nan for an empty list or a list holding a nan
NpMedian(vs) ==
    LET len == Len(vs)
    IN  IF len = 0 \/ \E i \in 1..len : vs[i].k = "nan" THEN NaN
        ELSE IF len % 2 = 1 THEN KthSmallest(vs, (len + 1) \div 2)
        ELSE MeanOf(KthSmallest(vs, len \div 2), KthSmallest(vs, len \div 2 + 1))

\* the sample index int(rate * t) of the time t, given in milliseconds
SampleIndex(rate, tms) == IntTrunc(rate * tms, 1000)

----------------------------------------------------------------------------
(* Filters.  A filter is named by its design call; its coefficients and   *)
(* its magnitude response are functions of these parameters alone.        *)

Butter(order, kind, lo, hi) ==
    [design |-> "butter", order |-> order, kind |-> kind, lo |-> lo, hi |-> hi]

\* band edges in tenths of a hertz
bLP == Butter(6, "lowpass", 1000, 1000)
bfilt50hz == Butter(2, "stop", 490, 510)
bhp == Butter(4, "high", 5, 5)
bfilt25hz == Butter(2, "stop", 240, 260)
BandPass(lo, hi) == Butter(4, "bandpass", 10 * lo, 10 * hi)
bfiltFIR == [design |-> "fir", order |-> 8, kind |-> "diff", lo |-> 0, hi |-> 0]

One(f) == SetToBag({f})

\* calcFrequencyResponse(b, a, h_in): |H_new| * h_in, the product of the
\* magnitude responses, kept as the bag of its factors
calcFrequencyResponse(f, h_in) == h_in (+) One(f)

\* the bag of n copies of f
RECURSIVE Copies(_, _)
Copies(f, n) == IF n <= 0 THEN EmptyBag ELSE Copies(f, n - 1) (+) One(f)

\* self.eeg: the samples x passed through the filters h
Signal(x, h) == [x |-> x, h |-> h]

\* signal.lfilter(b, a, e) for each filter of the bag filters: the signal e
\* passed through these filters as well
lfilter(filters, e) == Signal(e.x, e.h (+) filters)

----------------------------------------------------------------------------
(* Float arithmetic of calcRho, calcNoiseWall and calcSNR *)

\* np.sqrt(vmax / vmin) of two np.float64 variances (each "num", "pos" or
\* "nan"): x/0 is inf and 0/0 is nan, with a RuntimeWarning and no exception
SqrtRatio(vmax, vmin) ==
    IF vmax.k = "nan" \/ vmin.k = "nan" THEN NaN
    ELSE IF IsZero(vmin) THEN (IF IsZero(vmax) THEN NaN ELSE Inf)
    ELSE IF IsZero(vmax) THEN Val("sqrt", 0, 1)
    ELSE IF Exact(vmax) /\ Exact(vmin)
    THEN Val("sqrt", vmax.n * vmin.d, vmax.d * vmin.n)
    ELSE Pos

\* r < 1, for an r the model has computed
LessThanOne(r) == r.k = "sqrt" /\ r.n < r.d

\* r - 1/r for r >= 1, inf or nan
MinusInverse(r) ==
    IF r.k = "sqrt"
    THEN Val("sqrt", (r.n - r.d) * (r.n - r.d), r.n * r.d)
    ELSE r

\* math.log10(x) raises ValueError (math domain error) for x <= 0
Log10Raises(x) == x.k \in {"num", "sqrt"} /\ x.n <= 0

\* 10 * math.log10(x) for x > 0, inf or nan
TenLog10(x) ==
    CASE x.k = "sqrt" -> Val("dB", x.n, x.d)
      [] x.k = "num" -> Val("dB", x.n * x.n, x.d * x.d)
      [] x.k = "pos" -> Fin
      [] OTHER -> x

\* (mutant: vmin * r**2)
TimesSquare(vmin, r) ==
    IF vmin.k = "nan" \/ r.k = "nan" THEN NaN
    ELSE IF r.k = "inf" THEN (IF IsZero(vmin) THEN NaN ELSE Inf)
    ELSE IF IsZero(vmin) \/ IsZero(r) THEN Val("sqrt", 0, 1)
    ELSE IF ~(Exact(vmin) /\ Exact(r)) THEN Pos
    ELSE Num(vmin.n * r.n, vmin.d * r.d)

\* vmin * r, vmin a variance ("num", "pos" or "nan"), r a rho
Times(vmin, r) ==
    IF vmin.k = "nan" \/ r.k = "nan" THEN NaN
    ELSE IF r.k = "inf" THEN (IF IsZero(vmin) THEN NaN ELSE Inf)
    ELSE IF IsZero(vmin) \/ IsZero(r) THEN Val("sqrt", 0, 1)
    ELSE IF ~(Exact(vmin) /\ Exact(r)) THEN Pos
    ELSE LET g == Gcd(vmin.n * vmin.n, r.d)
             h == Gcd(r.n, vmin.d * vmin.d)
         IN  Val("sqrt", ((vmin.n * vmin.n) \div g) * (r.n \div h),
                         ((vmin.d * vmin.d) \div h) * (r.d \div g))

\* g**2 * v, v zero or positive
Gain(g, v) == IF v.k = "num" THEN Num(g * g * v.n, v.d) ELSE v

\* c / nv, c zero or positive, nv the np.float64 noise variance
Ratio(c, nv) ==
    LET czero == c.k = "num" /\ c.n = 0
    IN  IF nv.k = "nan" THEN NaN
        ELSE IF nv.k = "inf" THEN Zero
        ELSE IF IsZero(nv) THEN (IF czero THEN NaN ELSE Inf)
        ELSE IF czero THEN Zero ELSE Pos

----------------------------------------------------------------------------
(* Inputs *)

\* the raw EEG column of emgeeg.dat (units of 10 microvolts)
RawSamples == {0, 250, 3000}
\* zero_time_data.dat and zero_time_video.dat (ms)
ZeroData == {2}
ZeroVideo == {1}
\* dataok.dat (ms, video timebase)
QuietWindows == {<<-1, 1>>}
\* artefact.dat holds the first rows of this table (ms, video timebase)
ArtefactTable == <<<<-1, 1>>, <<0, 2>>, <<-1, 2>>>>
ArtefactRow(i) == ArtefactTable[((i - 1) % Len(ArtefactTable)) + 1]
\* filterData's (band_low, band_high)
BandArgs == {<<0, 0>>, <<8, 12>>, <<-2, 0>>}
\* doAllCalcs' (minEEGSignalFrequencyBand, maxEEGSignalFrequencyBand)
SignalBands == {<<1, 95>>, <<95, 1>>}

\* loadDataFromFile: self.eeg = self.eeg / 500 * corrfactor
ScaleEEG(raw) == [i \in 1..Len(raw) |-> (raw[i] * corrfactor) \div AmplifierGain]

\* self.fs before loadDataFromFile has run: the attribute does not exist
NoFs == 0
NoSignal == Signal(<< >>, EmptyBag)

\* the directory loadDataFromFile is called with
subdir == "self.subdir"

NoResponse == [set |-> FALSE, h |-> EmptyBag]
Response(h) == [set |-> TRUE, h |-> h]

Stages == <<"calculateParalysedEEGVariance", "calcNoiseVarMin",
            "calcNoiseVarMax", "calcRho", "calcNoiseWall", "calcSNR">>

\* the recordings: the files loadDataFromFile reads
Recordings ==
    {[emgeeg |-> raw, zero_time_data |-> zd, zero_time_video |-> zv,
      dataok |-> q, artefact |-> [i \in 1..n |-> ArtefactRow(i)]] :
        raw \in [1..EegLen -> RawSamples], zd \in ZeroData, zv \in ZeroVideo,
        q \in QuietWindows, n \in 1..MaxArtefacts}

\* __init__: loadDataFromFile runs only for a valid recording
Init ==
    /\ files \in Recordings
    /\ dataok \in BOOLEAN
    /\ IF dataok
       THEN /\ eeg = Signal(ScaleEEG(files.emgeeg), EmptyBag)
            /\ zero_data = files.zero_time_data
            /\ zero_video = files.zero_time_video
            /\ relaxed = files.dataok
            /\ artefact = files.artefact
            /\ fs = SamplingRate
       ELSE /\ eeg = NoSignal
            /\ zero_data = 0
            /\ zero_video = 0
            /\ relaxed = <<0, 0>>
            /\ artefact = << >>
            /\ fs = NoFs
    /\ f_signal_min = 1
    /\ f_signal_max = 95
    /\ applied = EmptyBag
    /\ fresp = EmptyBag
    /\ lastBand = <<0, 0>>
    /\ eegFilterFrequencyResponse = NoResponse
    /\ pureEEGVar = Unset
    /\ noiseVarMin = Unset
    /\ noiseVarMax = Unset
    /\ rho = Unset
    /\ SNRwall = Unset
    /\ noiseVariance = Unset
    /\ consciousEEGvar = Unset
    /\ SNR = Unset
    /\ pc = "idle"
    /\ op = "__init__"
    /\ caller = "client"
    /\ exc = NoExc
    /\ ret = Unset
    /\ lastAll = "never"
    /\ filterCalls = 0
    /\ calls = 0

----------------------------------------------------------------------------
(* Control: a method runs either as a call of the client (pc = "idle") or *)
(* as the stage of doAllCalcs that pc names.                              *)

loaded == <<files, dataok, fs, eeg, zero_data, zero_video, relaxed, artefact>>
band == <<f_signal_min, f_signal_max>>
filterState == <<applied, fresp, lastBand,
                 eegFilterFrequencyResponse, filterCalls>>

\* the attributes loadDataFromFile assigns exist
HasData == fs # NoFs

\* the stage doAllCalcs calls after stage m; "idle" after the last
NextStage(m) ==
    IF \E i \in 1..(Len(Stages) - 1) : Stages[i] = m
    THEN Stages[(CHOOSE i \in 1..(Len(Stages) - 1) : Stages[i] = m) + 1]
    ELSE "idle"

\* (mutant: the exception of a stage is swallowed)
AfterStageSwallowed(m, e) == NextStage(m)

\* where doAllCalcs stands after stage m ended with e: an exception leaves
\* doAllCalcs
AfterStage(m, e) == IF e # NoExc THEN "idle" ELSE NextStage(m)

\* a call of the client: no method is running, and the model's bound on the
\* number of calls is not reached
Call == pc = "idle" /\ calls < MaxCalls

Runs(m) == Call \/ pc = m

Return(m) ==
    /\ op' = m
    /\ caller' = IF pc = "idle" THEN "client" ELSE "doAllCalcs"
    /\ calls' = IF pc = "idle" THEN calls + 1 ELSE calls
    /\ ret' = Unset
    /\ pc' = IF pc = "idle" THEN "idle" ELSE AfterStage(m, exc')
    /\ lastAll' = IF pc # "idle" /\ pc' = "idle" THEN exc' ELSE lastAll

----------------------------------------------------------------------------
(* loadDataFromFile: a public method; __init__ calls it for a valid       *)
(* recording, and a client can call it on any NoiseWall                   *)

loadDataFromFile(dir) ==
    /\ Call
    /\ calls' = calls + 1
    /\ dir = subdir
    /\ eeg' = Signal(ScaleEEG(files.emgeeg), EmptyBag)
    /\ zero_data' = files.zero_time_data
    /\ zero_video' = files.zero_time_video
    /\ relaxed' = files.dataok
    /\ artefact' = files.artefact
    /\ fs' = SamplingRate
    /\ exc' = NoExc
    /\ op' = "loadDataFromFile"
    /\ caller' = "client"
    /\ ret' = Unset
    /\ UNCHANGED <<files, dataok, band, filterState, pureEEGVar, noiseVarMin,
                   noiseVarMax, rho, SNRwall, noiseVariance, consciousEEGvar,
                   SNR, pc, lastAll>>

----------------------------------------------------------------------------
(* filterData *)

\* the filters filterData passes self.eeg through before the band selection
AppliedAD ==
    One(bLP) (+) One(bfilt50hz) (+) One(bhp) (+) One(bfilt25hz) (+) One(bfilt50hz)

\* the response filterData has accumulated in fresp before the band selection
FoldedAD ==
    calcFrequencyResponse(bfilt50hz,
        calcFrequencyResponse(bfilt25hz,
            calcFrequencyResponse(bhp,
                calcFrequencyResponse(bLP, EmptyBag))))

\* the condition of the bandpass branch
IsBandPass(band_low, band_high) ==
    band_high > 0 /\ band_low > 0 /\ band_low < band_high

\* the number of passes of the FIR kernel
FirPasses(band_low) == IF band_low < 0 THEN -band_low ELSE 0

\* self.eegFilterFrequencyResponse after filterData, given its value before
ResponseAfter(band_low, band_high, before) ==
    IF FirPasses(band_low) > 0
    THEN Response(FoldedAD (+) Copies(bfiltFIR, FirPasses(band_low)))
    ELSE IF IsBandPass(band_low, band_high)
    THEN Response(calcFrequencyResponse(BandPass(band_low, band_high), FoldedAD))
    ELSE before

filterData(band_low, band_high) ==
    /\ Call
    /\ calls' = calls + 1
    /\ HasData => filterCalls < MaxFilterCalls
    /\ IF ~HasData
       THEN \* self.fs does not exist
            /\ exc' = "AttributeError"
            /\ UNCHANGED <<eeg, filterState>>
       ELSE /\ exc' = NoExc
            /\ applied' = AppliedAD
                    (+) (IF IsBandPass(band_low, band_high)
                         THEN One(BandPass(band_low, band_high)) ELSE EmptyBag)
                    (+) Copies(bfiltFIR, FirPasses(band_low))
            /\ eeg' = lfilter(applied', eeg)
            /\ fresp' = FoldedAD (+) Copies(bfiltFIR, FirPasses(band_low))
            /\ lastBand' = <<band_low, band_high>>
            /\ eegFilterFrequencyResponse' =
                   ResponseAfter(band_low, band_high, eegFilterFrequencyResponse)
            /\ filterCalls' = filterCalls + 1
    /\ op' = "filterData"
    /\ caller' = "client"
    /\ ret' = Unset
    /\ UNCHANGED <<files, dataok, fs, zero_data, zero_video, relaxed, artefact,
                   band, pureEEGVar, noiseVarMin, noiseVarMax, rho, SNRwall,
                   noiseVariance, consciousEEGvar, SNR, pc, lastAll>>

----------------------------------------------------------------------------
(* The stages *)

\* readParalysedEEGVarianceFromWhithamEtAl: the band power of one reference
\* table, or the exception the loop raises
BandPowerRaises(resp) == f_signal_min < f_signal_max /\ ~resp.set
BandPower == IF f_signal_min < f_signal_max THEN Pos ELSE Zero

calculateParalysedEEGVariance ==
    /\ Runs("calculateParalysedEEGVariance")
    /\ IF BandPowerRaises(eegFilterFrequencyResponse)
       THEN /\ exc' = "AttributeError"
            /\ pureEEGVar' = Zero
       ELSE /\ exc' = NoExc
            /\ pureEEGVar' = BandPower
    /\ Return("calculateParalysedEEGVariance")
    /\ UNCHANGED <<loaded, band, filterState, noiseVarMin, noiseVarMax, rho,
                   SNRwall, noiseVariance, consciousEEGvar, SNR>>

\* the bounds <<t1, t2>> of the chunk self.eeg[t1:t2]
getMinNoiseVarEEGChunk ==
    LET dt == zero_data - zero_video
    IN  <<SampleIndex(fs, relaxed[1] + dt), SampleIndex(fs, relaxed[2] + dt)>>

\* how calcNoiseVarMin can end for the variance v: whether a variance the
\* model has not computed exceeds the limit is left open
MinVarCheck(v) ==
    IF v.k = "num" /\ v.n < 0 THEN {MIN_VAR_NEG}
    ELSE IF v.k = "num" /\ Less(Num(MinStdLimit * MinStdLimit, 1), v)
    THEN {MIN_VAR_UNUSUALLY_HIGH}
    ELSE IF v.k = "pos" THEN {NoExc, MIN_VAR_UNUSUALLY_HIGH}
    ELSE {NoExc}

calcNoiseVarMin ==
    /\ Runs("calcNoiseVarMin")
    /\ IF ~HasData
       THEN /\ exc' = "AttributeError"
            /\ UNCHANGED noiseVarMin
       ELSE /\ noiseVarMin' \in SliceVar(eeg, getMinNoiseVarEEGChunk[1],
                                       getMinNoiseVarEEGChunk[2], noiseReduction)
            /\ exc' \in MinVarCheck(noiseVarMin')
    /\ Return("calcNoiseVarMin")
    /\ UNCHANGED <<loaded, band, filterState, pureEEGVar, noiseVarMax, rho,
                   SNRwall, noiseVariance, consciousEEGvar, SNR>>

\* what artefactVar can be for row i of self.artefact
ArtefactVar(i) ==
    LET dt == zero_data - zero_video
    IN  SliceVar(eeg, SampleIndex(fs, artefact[i][1] + dt),
                      SampleIndex(fs, artefact[i][2] + dt), noiseReduction)

\* what maxVarList can be
ArtefactVariances ==
    {vs \in [1..Len(artefact) -> UNION {ArtefactVar(i) : i \in 1..Len(artefact)}] :
        \A i \in 1..Len(artefact) : vs[i] \in ArtefactVar(i)}

\* the exception calcNoiseVarMax raises for the median v
MaxVarCheck(v) == IF v.k = "num" /\ v.n < 0 THEN MAX_VAR_NEG ELSE NoExc

calcNoiseVarMax ==
    /\ Runs("calcNoiseVarMax")
    /\ IF ~HasData
       THEN /\ exc' = "AttributeError"
            /\ UNCHANGED noiseVarMax
       ELSE IF Len(artefact) = 1
       THEN \* np.loadtxt returns a one-row table as a 1-D array
            /\ exc' = "IndexError"
            /\ UNCHANGED noiseVarMax
       ELSE /\ \E maxVarList \in ArtefactVariances :
                   noiseVarMax' = NpMedian(maxVarList)
            /\ exc' = MaxVarCheck(noiseVarMax')
    /\ Return("calcNoiseVarMax")
    /\ UNCHANGED <<loaded, band, filterState, pureEEGVar, noiseVarMin, rho,
                   SNRwall, noiseVariance, consciousEEGvar, SNR>>

calcRho ==
    /\ Runs("calcRho")
    /\ IF IsSet(noiseVarMax) /\ IsSet(noiseVarMin)
       THEN /\ rho' = SqrtRatio(noiseVarMax, noiseVarMin)
            /\ exc' = NoExc
       ELSE /\ exc' = "AttributeError"
            /\ UNCHANGED rho
    /\ Return("calcRho")
    /\ UNCHANGED <<loaded, band, filterState, pureEEGVar, noiseVarMin,
                   noiseVarMax, SNRwall, noiseVariance, consciousEEGvar, SNR>>

\* how calcNoiseWall can end for the rho r: for a positive rho the model
\* has not computed, r < 1, r = 1 and r > 1 are left open
NoiseWallCheck(r) ==
    IF ~IsSet(r) THEN {"AttributeError"}
    ELSE IF r.k = "pos" THEN {MIN_VAR_LARGER_THAN_MAX_VAR, "ValueError", NoExc}
    ELSE IF LessThanOne(r) THEN {MIN_VAR_LARGER_THAN_MAX_VAR}
    ELSE IF Log10Raises(MinusInverse(r)) THEN {"ValueError"}
    ELSE {NoExc}

calcNoiseWall ==
    /\ Runs("calcNoiseWall")
    /\ exc' \in NoiseWallCheck(rho)
    /\ SNRwall' = IF exc' = NoExc THEN TenLog10(MinusInverse(rho)) ELSE SNRwall
    /\ Return("calcNoiseWall")
    /\ UNCHANGED <<loaded, band, filterState, pureEEGVar, noiseVarMin,
                   noiseVarMax, rho, noiseVariance, consciousEEGvar, SNR>>

calcSNR ==
    /\ Runs("calcSNR")
    /\ IF ~IsSet(noiseVarMin) \/ ~IsSet(rho)
       THEN /\ exc' = "AttributeError"
            /\ UNCHANGED <<noiseVariance, consciousEEGvar, SNR>>
       ELSE /\ noiseVariance' = Times(noiseVarMin, rho)
            /\ IF ~IsSet(pureEEGVar)
               THEN /\ exc' = "AttributeError"
                    /\ UNCHANGED <<consciousEEGvar, SNR>>
               ELSE /\ consciousEEGvar' = Gain(consciousEEGgain, pureEEGVar)
                    /\ IF Log10Raises(Ratio(consciousEEGvar', noiseVariance'))
                       THEN /\ exc' = "ValueError"
                            /\ UNCHANGED SNR
                       ELSE /\ exc' = NoExc
                            /\ SNR' = TenLog10(Ratio(consciousEEGvar', noiseVariance'))
    /\ Return("calcSNR")
    /\ UNCHANGED <<loaded, band, filterState, pureEEGVar, noiseVarMin,
                   noiseVarMax, rho, SNRwall>>

----------------------------------------------------------------------------
(* doAllCalcs and the getters *)

\* (mutant: no validity check)
ValidityCheckMissing(ok) == NoExc

\* the check doAllCalcs makes before the first stage
ValidityCheck(ok) == IF ok THEN NoExc ELSE DATA_INVALID

doAllCalcs(minEEGSignalFrequencyBand, maxEEGSignalFrequencyBand) ==
    /\ Call
    /\ calls' = calls + 1
    /\ f_signal_min' = minEEGSignalFrequencyBand
    /\ f_signal_max' = maxEEGSignalFrequencyBand
    /\ exc' = ValidityCheck(dataok)
    /\ pc' = IF exc' = NoExc THEN Stages[1] ELSE "idle"
    /\ lastAll' = IF exc' = NoExc THEN lastAll ELSE exc'
    /\ op' = "doAllCalcs"
    /\ caller' = "client"
    /\ ret' = Unset
    /\ UNCHANGED <<loaded, filterState, pureEEGVar, noiseVarMin, noiseVarMax,
                   rho, SNRwall, noiseVariance, consciousEEGvar, SNR>>

Getter(m, attribute) ==
    /\ Call
    /\ calls' = calls + 1
    /\ op' = m
    /\ caller' = "client"
    /\ exc' = IF IsSet(attribute) THEN NoExc ELSE "AttributeError"
    /\ ret' = attribute
    /\ UNCHANGED <<loaded, band, filterState, pureEEGVar, noiseVarMin,
                   noiseVarMax, rho, SNRwall, noiseVariance, consciousEEGvar,
                   SNR, pc, lastAll>>

getSNRwall == Getter("getSNRwall", SNRwall)

getSNR == Getter("getSNR", SNR)

----------------------------------------------------------------------------

Next ==
    \/ loadDataFromFile(subdir)
    \/ \E b \in BandArgs : filterData(b[1], b[2])
    \/ \E b \in SignalBands : doAllCalcs(b[1], b[2])
    \/ calculateParalysedEEGVariance
    \/ calcNoiseVarMin
    \/ calcNoiseVarMax
    \/ calcRho
    \/ calcNoiseWall
    \/ calcSNR
    \/ getSNRwall
    \/ getSNR

Spec == Init /\ [][Next]_vars

----------------------------------------------------------------------------
(* Properties *)

results == <<pureEEGVar, noiseVarMin, noiseVarMax, rho, SNRwall, SNR>>

\* C1: on a recording whose validity flag is false, doAllCalcs raises
\* DATA_INVALID, starts no stage and assigns none of pureEEGVar,
\* noiseVarMin, noiseVarMax, rho, SNRwall, SNR.
C1_InvalidFailsFast ==
    [][(~dataok /\ op' = "doAllCalcs")
        => /\ exc' = DATA_INVALID
           /\ pc' = "idle"
           /\ UNCHANGED results]_vars

C1_Witness ==
    ~dataok /\ op = "doAllCalcs" /\ exc = DATA_INVALID /\ ~IsSet(pureEEGVar)

\* C2 (as claimed): on a recording whose validity flag is false, each of
\* filterData, calcNoiseVarMin, calcNoiseVarMax,
\* calculateParalysedEEGVariance and doAllCalcs ends in DATA_INVALID.
C2_InvalidAlwaysDataInvalid ==
    (~dataok /\ op \in {"filterData", "calcNoiseVarMin", "calcNoiseVarMax",
                        "calculateParalysedEEGVariance", "doAllCalcs"})
        => exc = DATA_INVALID

\* the results of the stages after stage m are the same in before and after
LaterUnchanged(m, before, after) ==
    LET assigned == [calculateParalysedEEGVariance |-> 1, calcNoiseVarMin |-> 2,
                     calcNoiseVarMax |-> 3, calcRho |-> 4, calcNoiseWall |-> 5,
                     calcSNR |-> 6]
    IN  \A i \in (assigned[m] + 1)..6 : before[i] = after[i]

\* C3: on a valid recording doAllCalcs runs reference variance, minimum
\* variance, maximum variance, rho, noise wall, SNR in this order, each at
\* most once, and stops at the first stage that fails: no later stage runs
\* and what the later stages assign is unchanged.
C3_StagesInOrder ==
    [][/\ (pc = "idle" /\ pc' # "idle")
            => (op' = "doAllCalcs" /\ dataok
                /\ pc' = "calculateParalysedEEGVariance")
       /\ pc # "idle"
            => /\ op' = pc
               /\ LaterUnchanged(pc, results, results')
               /\ IF exc' # NoExc
                  THEN pc' = "idle" /\ lastAll' = exc'
                  ELSE pc' = CASE pc = "calculateParalysedEEGVariance" -> "calcNoiseVarMin"
                               [] pc = "calcNoiseVarMin" -> "calcNoiseVarMax"
                               [] pc = "calcNoiseVarMax" -> "calcRho"
                               [] pc = "calcRho" -> "calcNoiseWall"
                               [] pc = "calcNoiseWall" -> "calcSNR"
                               [] pc = "calcSNR" -> "idle"]_vars

C3_Witness ==
    /\ dataok /\ pc = "idle" /\ op = "calcNoiseWall"
    /\ lastAll = MIN_VAR_LARGER_THAN_MAX_VAR
    /\ IsSet(rho) /\ ~IsSet(SNRwall) /\ ~IsSet(SNR)

\* C4 (as claimed): after filterData, every failure of doAllCalcs and of
\* the stages it calls is a NoiseWallException carrying one of the five
\* reason codes.
C4_OnlyReasonCodes ==
    [][(filterCalls > 0 /\ op' = "doAllCalcs" /\ exc' # NoExc
            => exc' \in Reasons)
       /\ (filterCalls > 0 /\ pc # "idle" /\ exc' # NoExc
            => exc' \in Reasons)]_vars

\* C5 (as claimed): whenever calcNoiseVarMin or calcNoiseVarMax computes a
\* variance, self.eeg has been processed by filterData.
C5_FilteredBeforeVariance ==
    (op \in {"calcNoiseVarMin", "calcNoiseVarMax"}
        /\ exc \notin {"AttributeError", "IndexError"})
        => eeg.h # EmptyBag

\* rho >= 1
AtLeastOne(r) == r.k = "inf" \/ (r.k = "sqrt" /\ r.n >= r.d)

\* C6 (as claimed): calcNoiseWall raises MIN_VAR_LARGER_THAN_MAX_VAR exactly
\* when rho < 1, leaving SNRwall as it was; for every rho >= 1 it raises
\* nothing and assigns SNRwall = 10*log10(rho - 1/rho).
C6_NoiseWallTotal ==
    [][(op' = "calcNoiseWall" /\ IsSet(rho))
        => /\ (rho.k = "sqrt" /\ rho.n < rho.d)
                => (exc' = MIN_VAR_LARGER_THAN_MAX_VAR /\ UNCHANGED SNRwall)
           /\ AtLeastOne(rho)
                => /\ exc' = NoExc
                   /\ \/ SNRwall'.k = "inf" /\ rho.k = "inf"
                      \/ /\ rho.k = "sqrt"
                         \* (rho - 1/rho)**2 = (n - d)**2 / (n * d)
                         /\ SNRwall' = Val("dB", (rho.n - rho.d) * (rho.n - rho.d),
                                                rho.n * rho.d)]_vars

\* C7 (as claimed): once a doAllCalcs call has failed, getSNRwall and getSNR
\* return no value until a later doAllCalcs call succeeds.  Stated for the
\* getter called next after the failed doAllCalcs.
C7_NoResultAfterFailure ==
    [][(/\ pc = "idle"
        /\ op = "doAllCalcs" \/ caller = "doAllCalcs"
        /\ lastAll \notin {"never", NoExc}
        /\ op' \in {"getSNRwall", "getSNR"})
        => (exc' = "AttributeError" /\ ~IsSet(ret'))]_vars

\* the response the last filterData accumulated
Accumulated ==
    IF lastBand[2] > 0 /\ lastBand[1] > 0 /\ lastBand[1] < lastBand[2]
    THEN eegFilterFrequencyResponse.h
    ELSE fresp

\* C8 (as claimed): after filterData, the accumulated frequency response
\* is the product of the responses of exactly the filters that were applied
\* to self.eeg, each folded in once.
C8_ResponseMatchesApplied ==
    (op = "filterData" /\ exc = NoExc) => Accumulated = applied

\* C9 (as claimed): after filterData with no band restriction (not
\* 0 < band_low < band_high, and band_low >= 0), eegFilterFrequencyResponse
\* is the response accumulated through Stages A-D.
C9_DefaultBandHasResponse ==
    (op = "filterData" /\ exc = NoExc
        /\ ~(lastBand[2] > 0 /\ lastBand[1] > 0 /\ lastBand[1] < lastBand[2])
        /\ lastBand[1] >= 0)
        => (eegFilterFrequencyResponse.set /\ eegFilterFrequencyResponse.h = fresp)

\* calcSNR has computed noiseVariance from noiseVarMax >= noiseVarMin > 0 and
\* from the rho that calcRho derives from them
C10_Case ==
    /\ op = "calcSNR"
    /\ noiseVarMin.k = "num" /\ noiseVarMax.k = "num"
    /\ noiseVarMin.n > 0 /\ ~Less(noiseVarMax, noiseVarMin)
    /\ rho.k = "sqrt"
    /\ rho.n * (noiseVarMax.d * noiseVarMin.n) = rho.d * (noiseVarMax.n * noiseVarMin.d)

\* the square of a "num" or "sqrt" value, as a rational
Square(x) == IF x.k = "sqrt" THEN Num(x.n, x.d) ELSE Num(x.n * x.n, x.d * x.d)
Product(x, y) == Num(x.n * y.n, x.d * y.d)

\* C10 (as claimed): calcSNR's noise-floor variance noiseVarMin * rho equals
\* noiseVarMax for every noiseVarMax >= noiseVarMin > 0.
C10_NoiseFloorIsMax ==
    C10_Case => (noiseVariance.k \in {"num", "sqrt"}
                 /\ Square(noiseVariance) = Square(noiseVarMax))

\* C10 (amended): noiseVarMin * rho is the geometric mean of noiseVarMin and
\* noiseVarMax (its square is noiseVarMin * noiseVarMax), so it equals
\* noiseVarMax exactly when noiseVarMax = noiseVarMin.
C10_NoiseFloorIsGeometricMean ==
    C10_Case => /\ noiseVariance.k \in {"num", "sqrt"}
                /\ Square(noiseVariance) = Product(noiseVarMin, noiseVarMax)
                /\ (Square(noiseVariance) = Square(noiseVarMax))
                     <=> (noiseVarMax = noiseVarMin)

C10_Witness ==
    C10_Case /\ exc = NoExc /\ Less(noiseVarMin, noiseVarMax) /\ IsSet(SNR)

====
